---------------------------- MODULE Spec2Model ----------------------------
(***************************************************************************)
(* Model of the border renderer of the grid canvas                         *)
(* (quadratic-client/src/app/gridGL/cells/borders/Borders.ts).             *)
(*                                                                         *)
(* Geometry: the coordinate-offset service is opaque; every column and row *)
(* is one unit wide, so getColumnX(i) = i, getRowY(i) = i and the          *)
(* placement index of a pixel x is x.  JavaScript null / undefined of an   *)
(* optional list or map is the empty list or map (the code takes the same  *)
(* path's result for both), of an edge it is None, of `current` it is      *)
(* Undefined.                                                              *)
(***************************************************************************)
EXTENDS Integers, Sequences, FiniteSets, TLC

\* ------------------------------------------------------------------ bounds
\* timestamps are 1..MaxTs
MaxTs == 2
\* column and row overrides are keyed by 1..MaxKey
MaxKey == 2
\* the viewport shows ViewSize units in each direction
ViewSize == 3
\* the viewport's origin is 0..MaxPan in each direction (moved together)
MaxPan == 1
\* at most MaxGen batches of primitives are created in one run
MaxGen == 3

\* ------------------------------------------------------- program constants
\* SCALE_TO_SHOW_SHEET_BORDERS = 0.15 and FADE_SCALE = 0.1, in hundredths
SCALE_TO_SHOW_SHEET_BORDERS == 15
FADE_SCALE == 10

\* ------------------------------------------------------------- data model
Undefined == -1

None == [line |-> "none", timestamp |-> 0]

Edge(l, t) == [line |-> l, timestamp |-> t]

\* JavaScript truthiness of an optional edge (`left && ...`)
Defined(e) == e.line # "none"

NoCell == [top |-> None, bottom |-> None, left |-> None, right |-> None]

EmptyMap == [k \in {} |-> NoCell]

\* borders === undefined
NoData ==
  [present |-> FALSE, all |-> NoCell, columns |-> EmptyMap, rows |-> EmptyMap,
   horizontal |-> <<>>, vertical |-> <<>>]

\* the entry of a sparse map, or NoCell (`borders.columns[k]?.right`)
At(map, k) == IF k \in DOMAIN map THEN map[k] ELSE NoCell

Min(a, b) == IF a < b THEN a ELSE b

\* an ascending sequence of the elements of a finite set of integers
\* (the order in which `for (let x in obj)` visits integer keys)
RECURSIVE KeysAscending(_)
KeysAscending(S) ==
  IF S = {} THEN <<>>
  ELSE LET m == CHOOSE x \in S : \A y \in S : x <= y
       IN <<m>> \o KeysAscending(S \ {m})

\* ---------------------------------------------------- geometry primitives
\* intersects.lineLineOneDimension: the closed-open intervals share length
LineLineOneDimension(aStart, aEnd, bStart, bEnd) ==
  aStart < bEnd /\ bStart < aEnd

\* divideLine(lines, current, start, end, overlap, overlapSize): consumes one
\* obstruction [overlap, overlap + overlapSize) against what is left of
\* [start, end) after the cursor; returns the lines and the new cursor.
DivideLine(lines, current, start, end, overlap, overlapSize) ==
  LET cur == IF current = Undefined THEN start ELSE current
      obsEnd == overlap + overlapSize
  IN IF obsEnd <= cur
       THEN [lines |-> lines, current |-> current]
       ELSE IF overlap > cur
         THEN [lines |-> Append(lines, <<cur, Min(overlap, end)>>),
               current |-> Min(obsEnd, end)]
         ELSE [lines |-> lines, current |-> Min(obsEnd, end)]

\* ----------------------------------------------------- border-set indexer
\* an obstruction: where it starts on the line, how long it is, its timestamp
\* (auth: an explicit segment, which carries no timestamp)
Obstruction(p, s, t, a) == [pos |-> p, size |-> s, timestamp |-> t, auth |-> a]

RECURSIVE PerpendicularOf(_, _, _, _)
PerpendicularOf(keys, map, first, second) ==
  IF keys = <<>> THEN <<>>
  ELSE LET k == Head(keys)
           c == map[k]
           a == IF Defined(c[first])
                  THEN <<Obstruction(k, 1, c[first].timestamp, FALSE)>> ELSE <<>>
           b == IF Defined(c[second])
                  THEN <<Obstruction(k, 1, c[second].timestamp, FALSE)>> ELSE <<>>
       IN a \o b \o PerpendicularOf(Tail(keys), map, first, second)

\* findPerpendicularVerticalLines(start, end, rows): the overrides of the map
\* whose left or right edge falls within [start, end)
FindPerpendicularVerticalLines(start, end, rows) ==
  PerpendicularOf(KeysAscending({k \in DOMAIN rows : start <= k /\ k < end}),
                  rows, "left", "right")

\* findPerpendicularHorizontalLines(start, end, columns): likewise, top or bottom
FindPerpendicularHorizontalLines(start, end, columns) ==
  PerpendicularOf(KeysAscending({k \in DOMAIN columns : start <= k /\ k < end}),
                  columns, "top", "bottom")

\* -------------------------------------------------------- overlap resolver
\* Array.prototype.sort((a, b) => a.pos - b.pos): stable, ascending
RECURSIVE InsertSorted(_, _)
InsertSorted(sorted, o) ==
  IF sorted = <<>> THEN <<o>>
  ELSE IF Head(sorted).pos <= o.pos
    THEN <<Head(sorted)>> \o InsertSorted(Tail(sorted), o)
    ELSE <<o>> \o sorted

RECURSIVE SortOverlaps(_)
SortOverlaps(s) ==
  IF s = <<>> THEN <<>>
  ELSE InsertSorted(SortOverlaps(SubSeq(s, 1, Len(s) - 1)), s[Len(s)])

\* while (overlaps.length) { overlap = overlaps.pop(); current = divideLine(...) }
RECURSIVE PopOverlaps(_, _, _, _, _)
PopOverlaps(overlaps, lines, current, start, end) ==
  IF overlaps = <<>> THEN [lines |-> lines, current |-> current]
  ELSE LET overlap == overlaps[Len(overlaps)]
           r == DivideLine(lines, current, start, end, overlap.pos, overlap.size)
       IN PopOverlaps(SubSeq(overlaps, 1, Len(overlaps) - 1),
                      r.lines, r.current, start, end)

\* a variant of Remainder: the whole span is pushed whether or not the cursor
\* moved
RemainderAlways(lines, current, start, end) ==
  Append(lines, <<start, end>>)

\* the remainder after the last obstruction
\* (`if (current === undefined) ... else if (current < end) ...`)
Remainder(lines, current, start, end) ==
  IF current = Undefined THEN Append(lines, <<start, end>>)
  ELSE IF current < end THEN Append(lines, <<current, end>>)
  ELSE lines

\* sort, pop and divide, then the remainder: the lines to draw
ResolveLine(overlaps, start, end) ==
  LET r == PopOverlaps(SortOverlaps(overlaps), <<>>, Undefined, start, end)
  IN Remainder(r.lines, r.current, start, end)

RECURSIVE VerticalOverlaps(_, _, _, _)
VerticalOverlaps(vertical, column, rowStart, rowEnd) ==
  IF vertical = <<>> THEN <<>>
  ELSE LET v == Head(vertical)
       IN (IF v.x = column /\ LineLineOneDimension(v.y, v.y + v.height, rowStart, rowEnd)
             THEN <<Obstruction(v.y, v.height, 0, TRUE)>> ELSE <<>>)
          \o VerticalOverlaps(Tail(vertical), column, rowStart, rowEnd)

RECURSIVE HorizontalOverlaps(_, _, _, _)
HorizontalOverlaps(horizontal, row, columnStart, columnEnd) ==
  IF horizontal = <<>> THEN <<>>
  ELSE LET h == Head(horizontal)
       IN (IF h.y = row /\ LineLineOneDimension(h.x, h.x + h.width, columnStart, columnEnd)
             THEN <<Obstruction(h.x, h.width, 0, TRUE)>> ELSE <<>>)
          \o HorizontalOverlaps(Tail(horizontal), row, columnStart, columnEnd)

\* one resolved line: who asked for it (tier, key, edge), where it is (axis,
\* coord, [start, end)), the style drawn, the obstructions collected and the
\* sub-intervals handed to drawCellBorder
Resolved(id, axis, coord, start, end, border, overlaps) ==
  [tier |-> id.tier, key |-> id.key, edge |-> id.edge, axis |-> axis,
   coord |-> coord, start |-> start, end |-> end, border |-> border,
   overlaps |-> overlaps, lines |-> ResolveLine(overlaps, start, end)]

\* drawScreenVerticalLine(rowStart, rowEnd, column, border, rows)
DrawScreenVerticalLine(b, id, rowStart, rowEnd, column, border, rows) ==
  Resolved(id, "v", column, rowStart, rowEnd, border,
           VerticalOverlaps(b.vertical, column, rowStart, rowEnd)
             \o FindPerpendicularVerticalLines(rowStart, rowEnd, rows))

\* drawScreenHorizontalLine(columnStart, columnEnd, row, border, columns)
DrawScreenHorizontalLine(b, id, columnStart, columnEnd, row, border, columns) ==
  Resolved(id, "h", row, columnStart, columnEnd, border,
           HorizontalOverlaps(b.horizontal, row, columnStart, columnEnd)
             \o FindPerpendicularHorizontalLines(columnStart, columnEnd, columns))

\* --------------------------------------------------- sheet-border renderer
CallId(t, k, e) == [tier |-> t, key |-> k, edge |-> e]

\* the later of a pair of sheet-wide edges (`a.timestamp > b.timestamp ? a : b`)
LaterOf(a, b) ==
  IF Defined(a) /\ Defined(b)
    THEN (IF a.timestamp > b.timestamp THEN a ELSE b)
  ELSE IF Defined(a) THEN a
  ELSE IF Defined(b) THEN b
  ELSE None

\* drawAll: the sheet-wide default, over the visible rows and columns
DrawAll(b, columnStart, columnEnd, rowStart, rowEnd) ==
  LET horizontal == LaterOf(b.all.top, b.all.bottom)
      vertical == LaterOf(b.all.left, b.all.right)
  IN (IF Defined(horizontal)
        THEN {DrawScreenHorizontalLine(b, CallId("all", 0, "horizontal"),
                columnStart, columnEnd + 1, y, horizontal, b.rows)
              : y \in rowStart..rowEnd}
        ELSE {})
     \cup
     (IF Defined(vertical)
        THEN {DrawScreenVerticalLine(b, CallId("all", 0, "vertical"),
                rowStart, rowEnd + 1, x, vertical, b.columns)
              : x \in columnStart..columnEnd}
        ELSE {})

\* `!other || own.timestamp > other.timestamp`: the facing edge of the
\* neighbour does not win
Wins(own, other) == ~Defined(other) \/ own.timestamp > other.timestamp

\* `edge && edge.line !== 'clear'`
Drawable(e) == Defined(e) /\ e.line # "clear"

\* the column tier of drawSheetBorders, for one column
DrawColumn(b, x, columnStart, columnEnd, rowStart, rowEnd) ==
  LET column == b.columns[x]
  IN (IF Drawable(column.left) /\ Wins(column.left, At(b.columns, x - 1).right)
        THEN {DrawScreenVerticalLine(b, CallId("column", x, "left"),
                rowStart, rowEnd + 1, x, column.left, b.rows)}
        ELSE {})
     \cup
     (IF Drawable(column.right) /\ Wins(column.right, At(b.columns, x + 1).left)
        THEN {DrawScreenVerticalLine(b, CallId("column", x, "right"),
                rowStart, rowEnd + 1, x + 1, column.right, b.rows)}
        ELSE {})
     \cup
     (IF Drawable(column.top)
        THEN {DrawScreenHorizontalLine(b, CallId("column", x, "top"),
                x, x + 1, y, column.top, EmptyMap) : y \in rowStart..(rowEnd + 1)}
        ELSE {})
     \cup
     (IF Drawable(column.bottom)
        THEN {DrawScreenHorizontalLine(b, CallId("column", x, "bottom"),
                x, x + 1, y, column.bottom, EmptyMap) : y \in rowStart..(rowEnd + 1)}
        ELSE {})

\* the row tier of drawSheetBorders, for one row
DrawRow(b, y, columnStart, columnEnd, rowStart, rowEnd) ==
  LET row == b.rows[y]
  IN (IF Drawable(row.top) /\ Wins(row.top, At(b.rows, y - 1).bottom)
        THEN {DrawScreenHorizontalLine(b, CallId("row", y, "top"),
                columnStart, columnEnd + 1, y, row.top, b.columns)}
        ELSE {})
     \cup
     (IF Drawable(row.bottom) /\ Wins(row.bottom, At(b.rows, y + 1).top)
        THEN {DrawScreenHorizontalLine(b, CallId("row", y, "bottom"),
                columnStart, columnEnd + 1, y + 1, row.bottom, b.columns)}
        ELSE {})
     \cup
     (IF Drawable(row.left)
        THEN {DrawScreenVerticalLine(b, CallId("row", y, "left"),
                y, y + 1, x, row.left, EmptyMap) : x \in columnStart..(columnEnd + 1)}
        ELSE {})
     \cup
     (IF Drawable(row.right)
        THEN {DrawScreenVerticalLine(b, CallId("row", y, "right"),
                y, y + 1, x, row.right, EmptyMap) : x \in columnStart..(columnEnd + 1)}
        ELSE {})

\* every line drawSheetBorders resolves for dataset b in the visible window
SheetCalls(b, columnStart, columnEnd, rowStart, rowEnd) ==
  DrawAll(b, columnStart, columnEnd, rowStart, rowEnd)
  \cup UNION {DrawColumn(b, x, columnStart, columnEnd, rowStart, rowEnd)
              : x \in {k \in DOMAIN b.columns : k >= columnStart /\ k <= columnEnd}}
  \cup UNION {DrawRow(b, y, columnStart, columnEnd, rowStart, rowEnd)
              : y \in {k \in DOMAIN b.rows : k >= rowStart /\ k <= rowEnd}}

\* drawCellBorder with getSpriteSheet: one primitive per sub-interval
SheetSprites(calls, g) ==
  UNION {{[gen |-> g, tier |-> r.tier, key |-> r.key, edge |-> r.edge,
           axis |-> r.axis, coord |-> r.coord, start |-> r.lines[i][1],
           end |-> r.lines[i][2], line |-> r.border.line]
          : i \in 1..Len(r.lines)} : r \in calls}

\* ---------------------------------------------------- cell-border renderer
\* a segment-tier primitive: its batch, its place in the list, its rectangle
CellSprite(g, axis, i, x0, y0, x1, y1, line) ==
  [gen |-> g, axis |-> axis, index |-> i, x0 |-> x0, y0 |-> y0, x1 |-> x1,
   y1 |-> y1, line |-> line]

\* drawHorizontal: the primitives of the explicit horizontal segments
RECURSIVE DrawHorizontal(_, _, _)
DrawHorizontal(horizontal, i, g) ==
  IF i > Len(horizontal) THEN <<>>
  ELSE LET border == horizontal[i]
       IN (IF border.line = "clear" THEN <<>>
           ELSE <<CellSprite(g, "h", i, border.x, border.y,
                             border.x + border.width, border.y, border.line)>>)
          \o DrawHorizontal(horizontal, i + 1, g)

\* drawVertical: the primitives of the explicit vertical segments
RECURSIVE DrawVertical(_, _, _)
DrawVertical(vertical, i, g) ==
  IF i > Len(vertical) THEN <<>>
  ELSE LET border == vertical[i]
       IN (IF border.line = "clear" THEN <<>>
           ELSE <<CellSprite(g, "v", i, border.x, border.y,
                             border.x, border.y + border.height, border.line)>>)
          \o DrawVertical(vertical, i + 1, g)

\* drawHorizontal(); drawVertical(): the primitives created, in order
DrawSegments(b, g) ==
  DrawHorizontal(b.horizontal, 1, g) \o DrawVertical(b.vertical, 1, g)

Range(s) == {s[i] : i \in DOMAIN s}

\* spriteLines.push(...): the culling records of newly drawn primitives
RECURSIVE Culls(_)
Culls(sprites) ==
  IF sprites = <<>> THEN <<>>
  ELSE <<[sprite |-> Head(sprites), visible |-> TRUE]>> \o Culls(Tail(sprites))

\* ------------------------------------------------------------ the datasets
Keys == 1..MaxKey
Timestamps == 1..MaxTs
EdgeNames == {"top", "bottom", "left", "right"}
LineKinds == {"line1", "clear"}

\* one edge declaration of a dataset: the sheet-wide default (key 0), a
\* column or a row, one of its four edges, its kind and its timestamp
Decls ==
  [tier : {"all"}, key : {0}, edge : EdgeNames, line : LineKinds, timestamp : Timestamps]
  \cup
  [tier : {"column", "row"}, key : Keys, edge : EdgeNames, line : LineKinds,
   timestamp : Timestamps]

SameSlot(d, e) == d.tier = e.tier /\ d.key = e.key /\ d.edge = e.edge

\* the datasets' declarations: none, one, or two of different edges
DeclSets ==
  {{}} \cup {{d} : d \in Decls}
  \cup {{d, e} : <<d, e>> \in {p \in Decls \X Decls : ~SameSlot(p[1], p[2])}}

EdgeOf(D, t, k, e) ==
  IF \E d \in D : d.tier = t /\ d.key = k /\ d.edge = e
    THEN LET d == CHOOSE d \in D : d.tier = t /\ d.key = k /\ d.edge = e
         IN Edge(d.line, d.timestamp)
    ELSE None

CellOf(D, t, k) ==
  [top |-> EdgeOf(D, t, k, "top"), bottom |-> EdgeOf(D, t, k, "bottom"),
   left |-> EdgeOf(D, t, k, "left"), right |-> EdgeOf(D, t, k, "right")]

MapOf(D, t) == [k \in {d.key : d \in {d \in D : d.tier = t}} |-> CellOf(D, t, k)]

Dataset(D, h, v) ==
  [present |-> TRUE, all |-> CellOf(D, "all", 0), columns |-> MapOf(D, "column"),
   rows |-> MapOf(D, "row"), horizontal |-> h, vertical |-> v]

HSeg(x, y, w, l) == [x |-> x, y |-> y, width |-> w, line |-> l]
VSeg(x, y, h, l) == [x |-> x, y |-> y, height |-> h, line |-> l]

\* the explicit segment lists of the datasets: <<horizontal, vertical>>
SegmentChoices ==
  {<<<<>>, <<>>>>,
   <<<<HSeg(0, 1, 2, "line1")>>, <<VSeg(1, 1, 1, "line1")>>>>,
   <<<<>>, <<VSeg(1, 2, 2, "line1"), VSeg(1, 0, 1, "clear")>>>>}

\* the datasets whose resolution is examined tier by tier
TierDatasets ==
  {Dataset(D, sg[1], sg[2]) : D \in DeclSets, sg \in SegmentChoices}

\* the datasets the bordersSheet event delivers in the life-cycle runs
EventDatasets ==
  {Dataset({}, <<HSeg(0, 1, 2, "line1")>>, <<VSeg(1, 1, 1, "line1")>>),
   Dataset({[tier |-> "all", key |-> 0, edge |-> "left", line |-> "line1",
             timestamp |-> 1],
            [tier |-> "row", key |-> 1, edge |-> "right", line |-> "line1",
             timestamp |-> MaxTs]},
           <<>>, <<VSeg(ViewSize + MaxPan + 1, 0, 1, "line1")>>),
   NoData}

\* ---------------------------------------------------------------- the state
VARIABLES
  borders,            \* this.borders
  dirty,              \* this.dirty
  viewportDirty,      \* pixiApp.viewport.dirty
  pan,                \* the origin of pixiApp.viewport.getVisibleBounds()
  scale,              \* pixiApp.viewport.scale.x, in hundredths
  sheetLines,         \* the children of this.sheetLines
  sheetLinesVisible,  \* this.sheetLines.visible
  sheetLinesAlpha,    \* this.sheetLines.alpha, in hundredths
  cellLines,          \* the children of this.cellLines
  spriteLines,        \* this.spriteLines
  resolved,           \* the lines resolved by the last drawSheetBorders
  gen,                \* the batches of primitives created so far
  op                  \* the handler that ran last

vars ==
  <<borders, dirty, viewportDirty, pan, scale, sheetLines, sheetLinesVisible,
    sheetLinesAlpha, cellLines, spriteLines, resolved, gen, op>>

OwnSheet == "own"
SheetIds == {"own", "other"}
Scales == {SCALE_TO_SHOW_SHEET_BORDERS - 5, SCALE_TO_SHOW_SHEET_BORDERS + 5,
           SCALE_TO_SHOW_SHEET_BORDERS + FADE_SCALE + 5}

\* the placement indices of the visible bounds
ColumnStart(p) == p
ColumnEnd(p) == p + ViewSize
RowStart(p) == p
RowEnd(p) == p + ViewSize

\* sprite.rectangle.intersects(bounds)
Intersects(sp, p) ==
  /\ sp.x0 <= p + ViewSize /\ sp.x1 >= p
  /\ sp.y0 <= p + ViewSize /\ sp.y1 >= p

\* a variant of Cull: nothing is tested
CullNone(sl, p) == sl

\* cull(): every pooled primitive is tested against the visible bounds
Cull(sl, p) ==
  [i \in DOMAIN sl |-> [sl[i] EXCEPT !.visible = Intersects(sl[i].sprite, p)]]

\* a variant of RemoveChildren: the children stay
RemoveChildrenKeep(children) == children

\* container.removeChildren()
RemoveChildren(children) == {}

\* a variant of ShouldUpdate: every tick redraws
ShouldUpdateAlways(d, vd) == TRUE

\* `if (!this.dirty && !viewportDirty) return` not taken
ShouldUpdate(d, vd) == d \/ vd

\* the alpha of the sheet lines at a scale at or above the threshold
Alpha(s) ==
  IF s < SCALE_TO_SHOW_SHEET_BORDERS + FADE_SCALE
    THEN ((s - SCALE_TO_SHOW_SHEET_BORDERS) * 100) \div FADE_SCALE
    ELSE 100

Init ==
  /\ borders = NoData
  /\ dirty = FALSE
  /\ viewportDirty = FALSE
  /\ pan = 0
  /\ scale \in Scales
  /\ sheetLines = {}
  /\ sheetLinesVisible = TRUE
  /\ sheetLinesAlpha = 100
  /\ cellLines = {}
  /\ spriteLines = <<>>
  /\ resolved = {}
  /\ gen = 0
  /\ op = "init"

\* drawSheetCells(sheetId, borders): the bordersSheet event
DrawSheetCells(sheetId, d) ==
  IF sheetId = OwnSheet
    THEN LET new == DrawSegments(d, gen + 1)
         IN /\ new # <<>> => gen < MaxGen
            /\ borders' = d
            /\ cellLines' = RemoveChildren(cellLines) \cup Range(new)
            /\ spriteLines' = spriteLines \o Culls(new)
            /\ dirty' = TRUE
            /\ gen' = IF new # <<>> THEN gen + 1 ELSE gen
            /\ op' = "bordersSheet"
            /\ UNCHANGED <<viewportDirty, pan, scale, sheetLines, sheetLinesVisible,
                           sheetLinesAlpha, resolved>>
    ELSE /\ op' = "bordersSheetOther"
         /\ UNCHANGED <<borders, dirty, viewportDirty, pan, scale, sheetLines,
                        sheetLinesVisible, sheetLinesAlpha, cellLines, spriteLines,
                        resolved, gen>>

\* setDirty(): the sheetOffsets event
SetDirty ==
  /\ dirty' = TRUE
  /\ op' = "sheetOffsets"
  /\ UNCHANGED <<borders, viewportDirty, pan, scale, sheetLines, sheetLinesVisible,
                 sheetLinesAlpha, cellLines, spriteLines, resolved, gen>>

\* the host moves the viewport
Pan(p) ==
  /\ p # pan
  /\ pan' = p
  /\ viewportDirty' = TRUE
  /\ op' = "pan"
  /\ UNCHANGED <<borders, dirty, scale, sheetLines, sheetLinesVisible,
                 sheetLinesAlpha, cellLines, spriteLines, resolved, gen>>

\* the host zooms the viewport
Zoom(s) ==
  /\ s # scale
  /\ scale' = s
  /\ viewportDirty' = TRUE
  /\ op' = "zoom"
  /\ UNCHANGED <<borders, dirty, pan, sheetLines, sheetLinesVisible,
                 sheetLinesAlpha, cellLines, spriteLines, resolved, gen>>

\* the host has rendered the frame and clears the viewport's dirty flag
HostRendered ==
  /\ viewportDirty
  /\ viewportDirty' = FALSE
  /\ op' = "hostRendered"
  /\ UNCHANGED <<borders, dirty, pan, scale, sheetLines, sheetLinesVisible,
                 sheetLinesAlpha, cellLines, spriteLines, resolved, gen>>

\* update(), nothing to do
UpdateIdle ==
  /\ ~ShouldUpdate(dirty, viewportDirty)
  /\ op' = "update"
  /\ UNCHANGED <<borders, dirty, viewportDirty, pan, scale, sheetLines,
                 sheetLinesVisible, sheetLinesAlpha, cellLines, spriteLines,
                 resolved, gen>>

\* update(), below the scale that shows the sheet borders
UpdateHidden ==
  /\ ShouldUpdate(dirty, viewportDirty)
  /\ scale < SCALE_TO_SHOW_SHEET_BORDERS
  /\ sheetLinesVisible' = FALSE
  /\ dirty' = FALSE
  /\ spriteLines' = Cull(spriteLines, pan)
  /\ op' = "update"
  /\ UNCHANGED <<borders, viewportDirty, pan, scale, sheetLines, sheetLinesAlpha,
                 cellLines, resolved, gen>>

\* update() with drawSheetBorders()
UpdateRedraw ==
  /\ ShouldUpdate(dirty, viewportDirty)
  /\ scale >= SCALE_TO_SHOW_SHEET_BORDERS
  /\ LET calls == IF borders.present
                    THEN SheetCalls(borders, ColumnStart(pan), ColumnEnd(pan),
                                    RowStart(pan), RowEnd(pan))
                    ELSE {}
         new == IF borders.present THEN DrawSegments(borders, gen + 1) ELSE <<>>
         sprites == SheetSprites(calls, gen + 1)
         created == new # <<>> \/ sprites # {}
     IN /\ created => gen < MaxGen
        /\ sheetLinesVisible' = TRUE
        /\ cellLines' = RemoveChildren(cellLines) \cup Range(new)
        /\ sheetLines' = RemoveChildren(sheetLines) \cup sprites
        /\ viewportDirty' = TRUE
        /\ resolved' = calls
        /\ spriteLines' = Cull(spriteLines \o Culls(new), pan)
        /\ gen' = IF created THEN gen + 1 ELSE gen
  /\ sheetLinesAlpha' = Alpha(scale)
  /\ dirty' = FALSE
  /\ op' = "update"
  /\ UNCHANGED <<borders, pan, scale>>

Update == UpdateIdle \/ UpdateHidden \/ UpdateRedraw

Next ==
  \/ \E sheetId \in SheetIds, d \in EventDatasets : DrawSheetCells(sheetId, d)
  \/ SetDirty
  \/ \E p \in 0..MaxPan : Pan(p)
  \/ \E s \in Scales : Zoom(s)
  \/ HostRendered
  \/ Update

Spec == Init /\ [][Next]_vars

\* the state after the first bordersSheet event, for any of the datasets
InitTiers ==
  /\ borders \in TierDatasets
  /\ dirty = TRUE
  /\ viewportDirty = FALSE
  /\ pan \in 0..MaxPan
  /\ scale = SCALE_TO_SHOW_SHEET_BORDERS + FADE_SCALE + 5
  /\ sheetLines = {}
  /\ sheetLinesVisible = TRUE
  /\ sheetLinesAlpha = 100
  /\ cellLines = Range(DrawSegments(borders, 1))
  /\ spriteLines = Culls(DrawSegments(borders, 1))
  /\ resolved = {}
  /\ gen = IF DrawSegments(borders, 1) # <<>> THEN 1 ELSE 0
  /\ op = "bordersSheet"

NextTiers == UpdateRedraw

SpecTiers == InitTiers /\ [][NextTiers]_vars

\* ------------------------------------------------------------- the claims
\* the units of [a, b)
Units(a, b) == {u \in a..(b - 1) : TRUE}

\* the units of a resolved line covered by its emitted sub-intervals
EmittedUnits(r) ==
  {u \in Units(r.start, r.end) :
     \E i \in 1..Len(r.lines) : r.lines[i][1] <= u /\ u < r.lines[i][2]}

\* the identities of the lines resolved: who drew, where, and in which style
Drawn(calls) ==
  {[tier |-> r.tier, key |-> r.key, edge |-> r.edge, coord |-> r.coord,
    border |-> r.border] : r \in calls}

WasDrawn(t, k, e) == \E r \in resolved : r.tier = t /\ r.key = k /\ r.edge = e

\* a tick has redrawn since the dataset arrived (the scale of SpecTiers shows
\* the sheet borders), so `resolved` is the resolution of `borders`
Redrawn == ~dirty /\ op # "bordersSheet"

VisibleColumns == {k \in DOMAIN borders.columns : k >= ColumnStart(pan) /\ k <= ColumnEnd(pan)}
VisibleRows == {k \in DOMAIN borders.rows : k >= RowStart(pan) /\ k <= RowEnd(pan)}

\* C1: the sub-intervals emitted for one resolved line are pairwise
\* non-overlapping: no unit of the line is covered by two of them.
C1_NoDoubleCoverage ==
  \A r \in resolved :
    \A i, j \in 1..Len(r.lines) :
      i # j => \/ r.lines[i][2] <= r.lines[j][1]
               \/ r.lines[j][2] <= r.lines[i][1]

\* a line with two obstructions was split into at least two sub-intervals
C1_Witness ==
  \E r \in resolved : Len(r.overlaps) >= 2 /\ Len(r.lines) >= 2

\* the dataset with every edge of kind clear taken out
StripEdge(e) == IF e.line = "clear" THEN None ELSE e

StripCell(c) ==
  [top |-> StripEdge(c.top), bottom |-> StripEdge(c.bottom),
   left |-> StripEdge(c.left), right |-> StripEdge(c.right)]

StripClear(b) ==
  [b EXCEPT !.all = StripCell(b.all),
            !.columns = [k \in DOMAIN b.columns |-> StripCell(b.columns[k])],
            !.rows = [k \in DOMAIN b.rows |-> StripCell(b.rows[k])]]

\* no edge of the dataset is of kind clear
NoClear(b) == StripClear(b) = b

\* C2: for a line whose obstructions have distinct timestamps, the emitted
\* sub-intervals and the obstructions at least as late as the drawn edge
\* partition the span: every unit is in exactly one of the two.  (Stated for
\* datasets without a clear edge and lines obstructed by overrides only,
\* which all carry a timestamp.)
C2_FullCoverageMinusObstructions ==
  \A r \in resolved :
    NoClear(borders) =>
    LET n == Len(r.overlaps)
        late == {u \in Units(r.start, r.end) :
                   \E i \in 1..n : /\ r.overlaps[i].timestamp >= r.border.timestamp
                                   /\ r.overlaps[i].pos <= u
                                   /\ u < r.overlaps[i].pos + r.overlaps[i].size}
    IN (/\ \A i \in 1..n : ~r.overlaps[i].auth
        /\ \A i, j \in 1..n : i # j => r.overlaps[i].timestamp # r.overlaps[j].timestamp)
       => /\ EmittedUnits(r) \cup late = Units(r.start, r.end)
          /\ EmittedUnits(r) \cap late = {}

\* the declared edges of a dataset: <<tier, key, edge name, edge>>
DeclaredEdges(b) ==
  {<<"all", 0, e, b.all[e]>> : e \in {n \in EdgeNames : Defined(b.all[n])}}
  \cup UNION {{<<"column", k, e, b.columns[k][e]>>
               : e \in {n \in EdgeNames : Defined(b.columns[k][n])}}
              : k \in DOMAIN b.columns}
  \cup UNION {{<<"row", k, e, b.rows[k][e]>>
               : e \in {n \in EdgeNames : Defined(b.rows[k][n])}}
              : k \in DOMAIN b.rows}

\* no two declared edges of the dataset have the same timestamp
DistinctTimestamps(b) ==
  \A d, e \in DeclaredEdges(b) : d # e => d[4].timestamp # e[4].timestamp

\* C3: in every tier an edge of kind clear is never drawn and takes no part
\* in a timestamp comparison: what is drawn, by whom and in which style, is
\* what would be drawn were the clear declarations absent.  (Stated for
\* datasets whose declarations have distinct timestamps, so that no tie is
\* involved.)
C3_ClearIsAbsent ==
  (Redrawn /\ DistinctTimestamps(borders)) =>
    Drawn(resolved) =
      Drawn(SheetCalls(StripClear(borders), ColumnStart(pan), ColumnEnd(pan),
                       RowStart(pan), RowEnd(pan)))

\* exactly one of the two facing edges was drawn, the later one if the
\* timestamps differ
ExactlyOneDrawn(t, k, e, own, l, f, facing) ==
  /\ WasDrawn(t, k, e) # WasDrawn(t, l, f)
  /\ own.timestamp > facing.timestamp => WasDrawn(t, k, e)
  /\ facing.timestamp > own.timestamp => WasDrawn(t, l, f)

\* C4: of two adjacent visible columns c and c + 1 that declare a right and
\* a left edge not of kind clear, the column tier draws exactly one on the
\* shared boundary: the later one, and one of them too when the timestamps
\* are equal.  Likewise for adjacent rows with bottom and top.
C4_ExactlyOneOwner ==
  Redrawn =>
    /\ \A x \in VisibleColumns :
         (x + 1 \in VisibleColumns
          /\ Drawable(borders.columns[x].right)
          /\ Drawable(borders.columns[x + 1].left))
         => ExactlyOneDrawn("column", x, "right", borders.columns[x].right,
                            x + 1, "left", borders.columns[x + 1].left)
    /\ \A y \in VisibleRows :
         (y + 1 \in VisibleRows
          /\ Drawable(borders.rows[y].bottom)
          /\ Drawable(borders.rows[y + 1].top))
         => ExactlyOneDrawn("row", y, "bottom", borders.rows[y].bottom,
                            y + 1, "top", borders.rows[y + 1].top)

\* C5: the vertical line of the sheet-wide default is cut at every row of
\* its span that has an override with a left or right edge: no emitted
\* sub-interval covers the unit of that row.  Likewise the horizontal line
\* and the columns with a top or bottom edge.  (Stated for datasets without a
\* clear edge.)
C5_OverridesCutDefault ==
  (Redrawn /\ NoClear(borders)) =>
    \A r \in resolved :
      /\ (r.tier = "all" /\ r.axis = "v") =>
           \A y \in DOMAIN borders.rows :
             (r.start <= y /\ y < r.end
              /\ (Defined(borders.rows[y].left) \/ Defined(borders.rows[y].right)))
             => y \notin EmittedUnits(r)
      /\ (r.tier = "all" /\ r.axis = "h") =>
           \A x \in DOMAIN borders.columns :
             (r.start <= x /\ x < r.end
              /\ (Defined(borders.columns[x].top) \/ Defined(borders.columns[x].bottom)))
             => x \notin EmittedUnits(r)

\* every variable but op and the variables named is unchanged
RendererUnchanged ==
  UNCHANGED <<borders, dirty, viewportDirty, pan, scale, sheetLines,
              sheetLinesVisible, sheetLinesAlpha, cellLines, spriteLines,
              resolved, gen>>

\* the step is a tick that passes the dirty test of update()
TickRuns == op' = "update" /\ (dirty \/ viewportDirty)

\* the step is the bordersSheet event with an undefined dataset for the
\* renderer's own sheet
ClearedStep == op' = "bordersSheet" /\ ~borders'.present

\* C6 as stated: when the bordersSheet event delivers an undefined dataset
\* for the renderer's own sheet, every drawable of the sheet, sheet-tier and
\* segment-tier, is removed, and none is created while the dataset stays
\* undefined.
C6_ClearedAtOnce ==
  [][/\ ClearedStep => (sheetLines' = {} /\ cellLines' = {})
     /\ (~borders.present /\ ~borders'.present)
          => (sheetLines' \subseteq sheetLines /\ cellLines' \subseteq cellLines)]_vars

\* C6 as amended: the event removes the segment-tier drawables at once and
\* marks the renderer dirty; the sheet-tier drawables stay until the next
\* tick that runs at or above the scale that shows the sheet borders, which
\* removes them, and a tick that runs below that scale hides them; while the
\* dataset stays undefined no drawable is created.
C6_ClearedByNextRedraw ==
  [][/\ ClearedStep => (cellLines' = {} /\ sheetLines' = sheetLines /\ dirty')
     /\ (~borders.present /\ ~borders'.present)
          => (sheetLines' \subseteq sheetLines /\ cellLines' = {})
     /\ (~borders.present /\ TickRuns /\ scale >= SCALE_TO_SHOW_SHEET_BORDERS)
          => sheetLines' = {}
     /\ (~borders.present /\ TickRuns /\ scale < SCALE_TO_SHOW_SHEET_BORDERS)
          => ~sheetLinesVisible']_vars

\* the event has delivered an undefined dataset and the sheet-tier drawables
\* of the dataset before it are still there
C6_Witness ==
  op = "bordersSheet" /\ ~borders.present /\ sheetLines # {} /\ cellLines = {}

\* C7: a tick that runs below the scale that shows the sheet borders hides
\* the sheet-tier primitives, resolves nothing (no sheet-tier primitive is
\* removed or created), and culls every pooled segment-tier primitive: it is
\* visible exactly if its rectangle meets the visible bounds.
C7_HiddenTick ==
  [][(TickRuns /\ scale < SCALE_TO_SHOW_SHEET_BORDERS) =>
       /\ ~sheetLinesVisible'
       /\ sheetLines' = sheetLines
       /\ resolved' = resolved
       /\ cellLines' = cellLines
       /\ Len(spriteLines') = Len(spriteLines)
       /\ \A i \in 1..Len(spriteLines) :
            /\ spriteLines'[i].sprite = spriteLines[i].sprite
            /\ spriteLines'[i].visible =
                 LET sp == spriteLines[i].sprite
                 IN /\ sp.x0 <= pan + ViewSize /\ sp.x1 >= pan
                    /\ sp.y0 <= pan + ViewSize /\ sp.y1 >= pan]_vars

\* a tick has run below the scale: the sheet-tier primitives are kept but
\* hidden, and a segment-tier primitive outside the bounds is hidden
C7_Witness ==
  /\ op = "update" /\ scale < SCALE_TO_SHOW_SHEET_BORDERS /\ ~dirty
  /\ ~sheetLinesVisible /\ sheetLines # {}
  /\ \E i \in 1..Len(spriteLines) : ~spriteLines[i].visible
  /\ \E i \in 1..Len(spriteLines) : spriteLines[i].visible

\* C8: a tick triggered by a move of the viewport alone, the dataset
\* unchanged and the renderer clean, neither removes nor creates a
\* segment-tier primitive.
C8_SegmentsRetained ==
  [][(op = "pan" /\ ~dirty /\ op' = "update") => cellLines' = cellLines]_vars

C10_PoolIsAttached ==
  /\ {spriteLines[i].sprite : i \in 1..Len(spriteLines)} = cellLines
  /\ Len(spriteLines) = Cardinality(cellLines)

=============================================================================
